---- MODULE Spec2Model ----
(***************************************************************************)
(* UPI statement analyser (src/analyser.py): a linear Streamlit script     *)
(*   upload -> extract_text_lines -> group_transaction_blocks ->           *)
(*   parse_transaction_blocks -> categorize_transaction -> DataFrame ->    *)
(*   table -> summary metrics -> category chart -> get_llm_insight -> CSV. *)
(* Text is modelled as a sequence of one-character strings, so that the    *)
(* regular expressions, strip(), upper(), lower() and the substring tests  *)
(* are computed character by character as Python computes them.            *)
(* Amounts are held in hundredths (the amount pattern always has exactly   *)
(* two decimals), so sums are exact.                                       *)
(***************************************************************************)
EXTENDS Integers, Sequences, FiniteSets, TLC

\* ------------------------------------------------------------------ bounds
\* Longest line sequence an uploaded PDF yields in the model.
MaxLines == 3
\* Longest description, in vocabulary fragments, fed to the categorizer alone.
MaxFrags == 3

\* ------------------------------------------------------- character classes
UpperAlpha == <<"A", "B", "C", "D", "E", "F", "G", "H", "I", "J", "K", "L", "M", "N", "O", "P", "Q", "R", "S", "T", "U", "V", "W", "X", "Y", "Z">>
LowerAlpha == <<"a", "b", "c", "d", "e", "f", "g", "h", "i", "j", "k", "l", "m", "n", "o", "p", "q", "r", "s", "t", "u", "v", "w", "x", "y", "z">>
DigitChars == <<"0", "1", "2", "3", "4", "5", "6", "7", "8", "9">>

Range(f) == {f[x] : x \in DOMAIN f}

IndexIn(alpha, c) == IF c \in Range(alpha) THEN CHOOSE i \in DOMAIN alpha : alpha[i] = c ELSE 0

DigitSet == Range(DigitChars)
UpperSet == Range(UpperAlpha)
LowerSet == Range(LowerAlpha)
WordSet == DigitSet \cup UpperSet \cup LowerSet \cup {"_"}

DigitMap == [c \in DigitSet |-> IndexIn(DigitChars, c) - 1]
LowerMap == [c \in UpperSet |-> LowerAlpha[IndexIn(UpperAlpha, c)]]
UpperMap == [c \in LowerSet |-> UpperAlpha[IndexIn(LowerAlpha, c)]]

\* regex \d
IsDigit(c) == c \in DigitSet
\* regex \w
IsWord(c) == c \in WordSet
\* what str.strip() removes
IsSpace(c) == c \in {" ", "\t"}

DigitVal(c) == DigitMap[c]

\* one character of str.lower() / str.upper()
LowerChar(c) == IF c \in UpperSet THEN LowerMap[c] ELSE c
UpperChar(c) == IF c \in LowerSet THEN UpperMap[c] ELSE c

Lower(s) == [i \in 1..Len(s) |-> LowerChar(s[i])]
Upper(s) == [i \in 1..Len(s) |-> UpperChar(s[i])]

\* Python's `sub in s`
Contains(s, sub) == \E p \in 1..(Len(s) - Len(sub) + 1) : SubSeq(s, p, p + Len(sub) - 1) = sub

\* str.strip(): drop leading and trailing whitespace
Strip(s) ==
  LET keep == {i \in 1..Len(s) : ~IsSpace(s[i])}
  IN IF keep = {} THEN <<>>
     ELSE SubSeq(s, CHOOSE i \in keep : \A k \in keep : i <= k,
                    CHOOSE i \in keep : \A k \in keep : i >= k)

\* " ".join(parts)
RECURSIVE Join(_)
Join(parts) ==
  IF Len(parts) = 0 THEN <<>>
  ELSE IF Len(parts) = 1 THEN parts[1]
  ELSE parts[1] \o <<" ">> \o Join(Tail(parts))

\* --------------------------------------------------- the two regular expressions
\* r"\d{2} \w{3} \d{2}" matched with its first character at position p of s
DateAt(s, p) ==
  /\ p >= 1
  /\ p + 8 <= Len(s)
  /\ IsDigit(s[p]) /\ IsDigit(s[p + 1])
  /\ s[p + 2] = " "
  /\ IsWord(s[p + 3]) /\ IsWord(s[p + 4]) /\ IsWord(s[p + 5])
  /\ s[p + 6] = " "
  /\ IsDigit(s[p + 7]) /\ IsDigit(s[p + 8])

\* re.match(date pattern, line): anchored at the start of the line
MatchDate(line) == DateAt(line, 1)

\* re.search(date pattern, s): start of the leftmost match, 0 when there is none
SearchDate(s) ==
  LET hits == {p \in 1..Len(s) : DateAt(s, p)}
  IN IF hits = {} THEN 0 ELSE CHOOSE p \in hits : \A q \in hits : p <= q

\* re.sub(date pattern, "", s): every non-overlapping match, left to right, removed
RECURSIVE SubDateFrom(_, _)
SubDateFrom(s, p) ==
  IF p > Len(s) THEN <<>>
  ELSE IF DateAt(s, p) THEN SubDateFrom(s, p + 9)
  ELSE <<s[p]>> \o SubDateFrom(s, p + 1)

SubDate(s) == SubDateFrom(s, 1)

\* number of digits from position p on, counted up to four
DigitRun(s, p) ==
  IF p > Len(s) \/ ~IsDigit(s[p]) THEN 0
  ELSE IF p + 1 > Len(s) \/ ~IsDigit(s[p + 1]) THEN 1
  ELSE IF p + 2 > Len(s) \/ ~IsDigit(s[p + 2]) THEN 2
  ELSE IF p + 3 > Len(s) \/ ~IsDigit(s[p + 3]) THEN 3
  ELSE 4

\* (?:,\d{3})*(?:\.\d{2}) from position q: the position after the match, 0 on failure
RECURSIVE GroupsEnd(_, _)
GroupsEnd(s, q) ==
  IF q + 2 <= Len(s) /\ s[q] = "." /\ IsDigit(s[q + 1]) /\ IsDigit(s[q + 2]) THEN q + 3
  ELSE IF q + 3 <= Len(s) /\ s[q] = "," /\ IsDigit(s[q + 1]) /\ IsDigit(s[q + 2]) /\ IsDigit(s[q + 3])
       THEN GroupsEnd(s, q + 4)
  ELSE 0

\* r"\d{1,3}(?:,\d{3})*(?:\.\d{2})" at position p: the position after the match, 0 on failure
AmountEnd(s, p) ==
  LET r == DigitRun(s, p)
  IN IF r \in 1..3 THEN GroupsEnd(s, p + r) ELSE 0

\* re.search(amount pattern, s): the matched text of the leftmost match, <<>> when none
SearchAmount(s) ==
  LET hits == {p \in 1..Len(s) : AmountEnd(s, p) # 0}
  IN IF hits = {} THEN <<>>
     ELSE LET p == CHOOSE x \in hits : \A q \in hits : x <= q
          IN SubSeq(s, p, AmountEnd(s, p) - 1)

\* float(text.replace(",", "")), in hundredths
RECURSIVE DigitsValue(_, _)
DigitsValue(text, acc) ==
  IF Len(text) = 0 THEN acc
  ELSE IF IsDigit(text[1]) THEN DigitsValue(Tail(text), 10 * acc + DigitVal(text[1]))
  ELSE DigitsValue(Tail(text), acc)

AmountValue(text) == DigitsValue(text, 0)

\* ------------------------------------------- datetime.strptime / strftime
MonthAbbr == <<
  <<"j", "a", "n">>, <<"f", "e", "b">>, <<"m", "a", "r">>, <<"a", "p", "r">>,
  <<"m", "a", "y">>, <<"j", "u", "n">>, <<"j", "u", "l">>, <<"a", "u", "g">>,
  <<"s", "e", "p">>, <<"o", "c", "t">>, <<"n", "o", "v">>, <<"d", "e", "c">> >>

\* two-digit year of %y: 69..99 are 1969..1999, 00..68 are 2000..2068
FullYear(yy) == IF yy >= 69 THEN 1900 + yy ELSE 2000 + yy

IsLeap(y) == (y % 4 = 0 /\ y % 100 # 0) \/ y % 400 = 0

DaysIn(m, y) ==
  IF m = 2 THEN (IF IsLeap(y) THEN 29 ELSE 28)
  ELSE IF m \in {4, 6, 9, 11} THEN 30
  ELSE 31

\* strptime(token, "%d %b %y") on a nine-character date-pattern match:
\* [ok, y, m, d]; ok is FALSE where Python raises ValueError
Strptime(token) ==
  LET d == 10 * DigitVal(token[1]) + DigitVal(token[2])
      m == IndexIn(MonthAbbr, Lower(SubSeq(token, 4, 6)))
      y == FullYear(10 * DigitVal(token[8]) + DigitVal(token[9]))
  IN IF m # 0 /\ d >= 1 /\ d <= DaysIn(m, y)
     THEN [ok |-> TRUE, y |-> y, m |-> m, d |-> d]
     ELSE [ok |-> FALSE, y |-> 0, m |-> 0, d |-> 0]

TwoDigits(n) == <<DigitChars[(n \div 10) + 1], DigitChars[(n % 10) + 1]>>

\* strftime("%Y-%m-%d")
Strftime(t) ==
  TwoDigits(t.y \div 100) \o TwoDigits(t.y % 100) \o <<"-">> \o TwoDigits(t.m) \o <<"-">> \o TwoDigits(t.d)

\* pd.to_datetime on an ISO date text: the calendar date it denotes
ToDatetime(iso) ==
  [y |-> 1000 * DigitVal(iso[1]) + 100 * DigitVal(iso[2]) + 10 * DigitVal(iso[3]) + DigitVal(iso[4]),
   m |-> 10 * DigitVal(iso[6]) + DigitVal(iso[7]),
   d |-> 10 * DigitVal(iso[9]) + DigitVal(iso[10])]

\* ----------------------------------------------------------- keywords
KwZomato == <<"z", "o", "m", "a", "t", "o">>
KwSwiggy == <<"s", "w", "i", "g", "g", "y">>
KwGooglepay == <<"g", "o", "o", "g", "l", "e", "p", "a", "y">>
KwPaytm == <<"p", "a", "y", "t", "m">>
KwUpi == <<"u", "p", "i">>
KwImps == <<"i", "m", "p", "s">>
KwTransfer == <<"t", "r", "a", "n", "s", "f", "e", "r">>
KwInterest == <<"i", "n", "t", "e", "r", "e", "s", "t">>
KwSalary == <<"s", "a", "l", "a", "r", "y">>
KwRecharge == <<"r", "e", "c", "h", "a", "r", "g", "e">>
KwBill == <<"b", "i", "l", "l">>
KwRETURN == <<"R", "E", "T", "U", "R", "N">>
KwINTEREST == <<"I", "N", "T", "E", "R", "E", "S", "T">>

\* ------------------------------------------------ group_transaction_blocks
\* the test of the loop body: a date at the start of the raw line, and a
\* non-empty accumulator
\* faulty variant: re.search in place of re.match
ShouldFlush_Search(line, acc) == SearchDate(line) # 0 /\ acc # <<>>

ShouldFlush(line, acc) == MatchDate(line) /\ acc # <<>>

\* ------------------------------------------------ parse_transaction_blocks
\* the block with the leftmost date-pattern match alone removed (re.sub with count=1)
RemoveFirstDate(s) ==
  LET p == SearchDate(s)
  IN IF p = 0 THEN s ELSE SubSeq(s, 1, p - 1) \o SubSeq(s, p + 9, Len(s))

\* faulty variant: re.sub(..., count=1)
Description_FirstOnly(block) == Strip(RemoveFirstDate(block))

\* desc = re.sub(date pattern, "", block).strip()
Description(block) == Strip(SubDate(block))

\* faulty variant: the keywords looked for in the block as written, without upper()
TxType_CaseSensitive(block) ==
  IF Contains(block, KwRETURN) \/ Contains(block, KwINTEREST)
  THEN "Credit" ELSE "Debit"

\* tx_type
TxType(block) ==
  IF Contains(Upper(block), KwRETURN) \/ Contains(Upper(block), KwINTEREST)
  THEN "Credit" ELSE "Debit"

\* faulty variant: the date fields taken without strptime's checks, so no ValueError drops the block
ParseBlock_NoDateCheck(block) ==
  LET dp == SearchDate(block)
      amt == SearchAmount(block)
  IN IF dp # 0 /\ amt # <<>>
     THEN << [date |-> Strftime([y |-> FullYear(10 * DigitVal(block[dp + 7]) + DigitVal(block[dp + 8])),
                                 m |-> IndexIn(MonthAbbr, Lower(SubSeq(block, dp + 3, dp + 5))),
                                 d |-> 10 * DigitVal(block[dp]) + DigitVal(block[dp + 1])]),
              description |-> Description(block),
              amount |-> AmountValue(amt),
              type |-> TxType(block)] >>
     ELSE <<>>

\* the loop body for one block: <<>> when the block is dropped (no date match,
\* no amount match, or strptime raising inside the try), else the one
\* transaction appended
ParseBlock(block) ==
  LET dp == SearchDate(block)
      amt == SearchAmount(block)
  IN IF dp # 0 /\ amt # <<>>
     THEN LET t == Strptime(SubSeq(block, dp, dp + 8))
          IN IF t.ok
             THEN << [date |-> Strftime(t),
                      description |-> Description(block),
                      amount |-> AmountValue(amt),
                      type |-> TxType(block)] >>
             ELSE <<>>
     ELSE <<>>

\* --------------------------------------------------- categorize_transaction
\* faulty variant: the UPI rule tested before the Food rule
categorize_transaction_UpiFirst(description) ==
  LET desc == Lower(description)
  IN IF Contains(desc, KwGooglepay) \/ Contains(desc, KwPaytm) \/ Contains(desc, KwUpi) THEN "UPI Payment"
     ELSE IF Contains(desc, KwZomato) \/ Contains(desc, KwSwiggy) THEN "Food"
     ELSE IF Contains(desc, KwImps) \/ Contains(desc, KwTransfer) THEN "Bank Transfer"
     ELSE IF Contains(desc, KwInterest) \/ Contains(desc, KwSalary) THEN "Income"
     ELSE IF Contains(desc, KwRecharge) \/ Contains(desc, KwBill) THEN "Utilities"
     ELSE "Others"

categorize_transaction(description) ==
  LET desc == Lower(description)
  IN IF Contains(desc, KwZomato) \/ Contains(desc, KwSwiggy) THEN "Food"
     ELSE IF Contains(desc, KwGooglepay) \/ Contains(desc, KwPaytm) \/ Contains(desc, KwUpi) THEN "UPI Payment"
     ELSE IF Contains(desc, KwImps) \/ Contains(desc, KwTransfer) THEN "Bank Transfer"
     ELSE IF Contains(desc, KwInterest) \/ Contains(desc, KwSalary) THEN "Income"
     ELSE IF Contains(desc, KwRecharge) \/ Contains(desc, KwBill) THEN "Utilities"
     ELSE "Others"

\* ------------------------------------------------------------- aggregates
\* df[df["type"] == t]
RowsOfType(rows, t) == SelectSeq(rows, LAMBDA r : r.type = t)

\* ["amount"].sum()
RECURSIVE SumAmount(_)
SumAmount(rows) == IF Len(rows) = 0 THEN 0 ELSE rows[1].amount + SumAmount(Tail(rows))

\* faulty variant: the division without the total_income > 0 test
SavingsPercent_NoGuard(savings, total_income) ==
  [num |-> savings * 100, den |-> total_income]

\* (savings / total_income) * 100 if total_income > 0 else 0, as an exact
\* fraction num/den; den = 0 stands for the ZeroDivisionError
SavingsPercent(savings, total_income) ==
  IF total_income > 0
  THEN [num |-> savings * 100, den |-> total_income]
  ELSE [num |-> 0, den |-> 1]

Metrics(rows) ==
  LET total_income == SumAmount(RowsOfType(rows, "Credit"))
      total_expense == SumAmount(RowsOfType(rows, "Debit"))
      savings == total_income - total_expense
  IN [total_income |-> total_income,
      total_expense |-> total_expense,
      savings |-> savings,
      savings_percent |-> SavingsPercent(savings, total_income)]

\* rows.groupby("category")["amount"].sum(): only the categories present
GroupByCategory(rows) ==
  [c \in {rows[k].category : k \in DOMAIN rows} |->
     SumAmount(SelectSeq(rows, LAMBDA r : r.category = c))]

\* df.to_csv(index=False): the header and one row per transaction, the date
\* printed back as YYYY-MM-DD
ToCsv(rows) ==
  << <<"date", "description", "amount", "type", "category">> >> \o
  [k \in DOMAIN rows |->
     <<Strftime(rows[k].date), rows[k].description, rows[k].amount, rows[k].type, rows[k].category>>]

\* ------------------------------------------------------------------ state
VARIABLES
  pc,             \* position in the script
  uploaded_file,  \* what st.file_uploader returned
  lines,          \* extract_text_lines' result
  gi,             \* group_transaction_blocks: index of the line the loop is at
  current_block,  \* group_transaction_blocks: the accumulator
  blocks,         \* the blocks emitted so far, then the function's result
  starts,         \* history: for each block begun, the index of its first line
  pj,             \* parse_transaction_blocks: index of the block the loop is at
  txns,           \* the transactions
  df,             \* the DataFrame's rows
  alert,          \* the warning, error or uncaught exception that ended the run
  table,          \* st.dataframe: <<>> until shown, then <<rows>>
  metrics,        \* the summary metrics: <<>> until shown
  chart,          \* st.bar_chart: <<>> until shown
  insight,        \* st.markdown(insight): <<>> until shown
  csv,            \* st.download_button: <<>> until offered
  calls,          \* number of openai.ChatCompletion.create calls made
  response,       \* what the completion service did with the call: <<>> until called
  description,    \* the argument of a lone categorize_transaction call
  category        \* its result

vars == <<pc, uploaded_file, lines, gi, current_block, blocks, starts, pj, txns, df,
          alert, table, metrics, chart, insight, csv, calls, response, description, category>>

\* ------------------------------------------------------------- input lines
LineInterest == <<"0", "5", " ", "J", "a", "n", " ", "2", "4", " ", "I", "N", "T", "E", "R", "E", "S", "T", " ", "1", ",", "0", "0", "0", ".", "0", "0">>
LineZomato == <<"0", "6", " ", "J", "a", "n", " ", "2", "4", " ", "z", "o", "m", "a", "t", "o", " ", "4", "0", "0", ".", "0", "0">>
LineGooglePay == <<"0", "7", " ", "f", "e", "b", " ", "2", "4", " ", "G", "o", "o", "g", "l", "e", "P", "a", "y", " ", "Z", "o", "m", "a", "t", "o", " ", "1", "0", "0", ".", "0", "0">>
LineIndented == <<" ", "0", "8", " ", "M", "a", "r", " ", "2", "4", " ", "u", "p", "i">>
LineBadDay == <<"3", "1", " ", "F", "e", "b", " ", "2", "4", " ", "b", "i", "l", "l", " ", "5", "0", ".", "0", "0">>
LineReturn == <<"R", "e", "t", "u", "r", "n", " ", "2", "0", ".", "0", "0", " ">>
LineEmpty == <<>>

LineVocab == {LineInterest, LineZomato, LineGooglePay, LineIndented, LineBadDay,
              LineReturn, LineEmpty}

RECURSIVE SeqsUpTo(_, _)
SeqsUpTo(S, n) ==
  IF n = 0 THEN {<<>>}
  ELSE LET shorter == SeqsUpTo(S, n - 1)
       IN shorter \cup {Append(q, x) : q \in shorter, x \in S}

\* text.split("\n") never returns an empty list
LineSeqs == SeqsUpTo(LineVocab, MaxLines) \ {<<>>}

Uploads ==
  {[kind |-> "none", text |-> <<>>], [kind |-> "unreadable", text |-> <<>>]}
  \cup {[kind |-> "pdf", text |-> ls] : ls \in LineSeqs}

\* what the completion service can do with one request
Outcomes ==
  {[kind |-> "ok", text |-> "advice"],
   [kind |-> "raise", text |-> "timeout"],
   [kind |-> "raise", text |-> "invalid api key"],
   [kind |-> "malformed", text |-> "'choices'"]}

Idle ==
  /\ lines = <<>> /\ gi = 1 /\ current_block = <<>> /\ blocks = <<>> /\ starts = <<>>
  /\ pj = 1 /\ txns = <<>> /\ df = <<>> /\ alert = "none"
  /\ table = <<>> /\ metrics = <<>> /\ chart = <<>> /\ insight = <<>> /\ csv = <<>>
  /\ calls = 0 /\ response = <<>>

Init ==
  /\ pc = "upload"
  /\ uploaded_file \in Uploads
  /\ Idle
  /\ description = <<>>
  /\ category = "none"

\* ---------------------------------------------------------------- actions
\* lines 96-100
Upload ==
  /\ pc = "upload"
  /\ IF uploaded_file.kind = "none"
     THEN pc' = "stopped" /\ alert' = "warning_upload"
     ELSE pc' = "extract" /\ alert' = alert
  /\ UNCHANGED <<uploaded_file, lines, gi, current_block, blocks, starts, pj, txns, df,
                 table, metrics, chart, insight, csv, calls, response, description, category>>

\* line 103; fitz.open raises on a stream that is no PDF, and the script has no handler
extract_text_lines ==
  /\ pc = "extract"
  /\ IF uploaded_file.kind = "unreadable"
     THEN pc' = "exception" /\ alert' = "exception_extract_text_lines" /\ lines' = lines
     ELSE pc' = "group" /\ alert' = alert /\ lines' = uploaded_file.text
  /\ UNCHANGED <<uploaded_file, gi, current_block, blocks, starts, pj, txns, df,
                 table, metrics, chart, insight, csv, calls, response, description, category>>

\* lines 22-27: one iteration of the loop
GroupLine ==
  /\ pc = "group"
  /\ gi <= Len(lines)
  /\ LET line == lines[gi]
         flush == ShouldFlush(line, current_block)
         acc == IF flush THEN <<>> ELSE current_block
     IN /\ blocks' = IF flush THEN Append(blocks, Join(current_block)) ELSE blocks
        /\ current_block' = Append(acc, Strip(line))
        /\ starts' = IF acc = <<>> THEN Append(starts, gi) ELSE starts
  /\ gi' = gi + 1
  /\ UNCHANGED <<pc, uploaded_file, lines, pj, txns, df, alert,
                 table, metrics, chart, insight, csv, calls, response, description, category>>

\* faulty variant: the return without the flush of lines 28-29
GroupReturn_NoFlush ==
  /\ pc = "group"
  /\ gi > Len(lines)
  /\ current_block' = <<>>
  /\ pc' = "parse"
  /\ UNCHANGED <<uploaded_file, lines, gi, blocks, starts, pj, txns, df, alert,
                 table, metrics, chart, insight, csv, calls, response, description, category>>

\* lines 28-30: the flush after the last line, and the return
GroupReturn ==
  /\ pc = "group"
  /\ gi > Len(lines)
  /\ blocks' = IF current_block # <<>> THEN Append(blocks, Join(current_block)) ELSE blocks
  /\ current_block' = <<>>
  /\ pc' = "parse"
  /\ UNCHANGED <<uploaded_file, lines, gi, starts, pj, txns, df, alert,
                 table, metrics, chart, insight, csv, calls, response, description, category>>

\* lines 35-51: one iteration of the loop
ParseStep ==
  /\ pc = "parse"
  /\ pj <= Len(blocks)
  /\ txns' = txns \o ParseBlock(blocks[pj])
  /\ pj' = pj + 1
  /\ UNCHANGED <<pc, uploaded_file, lines, gi, current_block, blocks, starts, df, alert,
                 table, metrics, chart, insight, csv, calls, response, description, category>>

\* faulty variant: the script goes on without the st.stop() of line 110
CheckParsed_NoStop ==
  /\ pc = "parse"
  /\ pj > Len(blocks)
  /\ pc' = "categorize"
  /\ alert' = IF txns = <<>> THEN "error_no_transactions" ELSE alert
  /\ UNCHANGED <<uploaded_file, lines, gi, current_block, blocks, starts, pj, txns, df,
                 table, metrics, chart, insight, csv, calls, response, description, category>>

\* lines 52 and 108-110
CheckParsed ==
  /\ pc = "parse"
  /\ pj > Len(blocks)
  /\ IF txns = <<>>
     THEN pc' = "stopped" /\ alert' = "error_no_transactions"
     ELSE pc' = "categorize" /\ alert' = alert
  /\ UNCHANGED <<uploaded_file, lines, gi, current_block, blocks, starts, pj, txns, df,
                 table, metrics, chart, insight, csv, calls, response, description, category>>

\* lines 113-114
Categorize ==
  /\ pc = "categorize"
  /\ txns' = [k \in DOMAIN txns |->
                [date |-> txns[k].date,
                 description |-> txns[k].description,
                 amount |-> txns[k].amount,
                 type |-> txns[k].type,
                 category |-> categorize_transaction(txns[k].description)]]
  /\ pc' = "frame"
  /\ UNCHANGED <<uploaded_file, lines, gi, current_block, blocks, starts, pj, df, alert,
                 table, metrics, chart, insight, csv, calls, response, description, category>>

\* lines 116-122
BuildFrame ==
  /\ pc = "frame"
  /\ IF txns = <<>>
     THEN pc' = "stopped" /\ alert' = "error_date_column" /\ df' = df
     ELSE /\ pc' = "table"
          /\ alert' = alert
          /\ df' = [k \in DOMAIN txns |->
                      [date |-> ToDatetime(txns[k].date),
                       description |-> txns[k].description,
                       amount |-> txns[k].amount,
                       type |-> txns[k].type,
                       category |-> txns[k].category]]
  /\ UNCHANGED <<uploaded_file, lines, gi, current_block, blocks, starts, pj, txns,
                 table, metrics, chart, insight, csv, calls, response, description, category>>

\* lines 125-127
ShowTable ==
  /\ pc = "table"
  /\ table' = <<df>>
  /\ pc' = "metrics"
  /\ UNCHANGED <<uploaded_file, lines, gi, current_block, blocks, starts, pj, txns, df, alert,
                 metrics, chart, insight, csv, calls, response, description, category>>

\* lines 130-139
ShowMetrics ==
  /\ pc = "metrics"
  /\ metrics' = <<Metrics(df)>>
  /\ pc' = "chart"
  /\ UNCHANGED <<uploaded_file, lines, gi, current_block, blocks, starts, pj, txns, df, alert,
                 table, chart, insight, csv, calls, response, description, category>>

\* lines 142-144
ShowChart ==
  /\ pc = "chart"
  /\ chart' = <<GroupByCategory(RowsOfType(df, "Debit"))>>
  /\ pc' = "insight"
  /\ UNCHANGED <<uploaded_file, lines, gi, current_block, blocks, starts, pj, txns, df, alert,
                 table, metrics, insight, csv, calls, response, description, category>>

\* lines 84-91: the one completion call, and what is returned for its outcome
CompletionText(outcome) ==
  IF outcome.kind = "ok" THEN outcome.text ELSE "LLM failed: " \o outcome.text

\* lines 147-150, with get_llm_insight (lines 71-91) inlined: the credential
\* lookup of line 72 is outside the try, so a deployment without the secret
\* raises out of the function and out of the script
get_llm_insight ==
  /\ pc = "insight"
  /\ \E has_secret \in BOOLEAN, outcome \in Outcomes :
       IF ~has_secret
       THEN /\ pc' = "exception"
            /\ alert' = "exception_get_llm_insight"
            /\ UNCHANGED <<insight, calls, response>>
       ELSE /\ calls' = calls + 1
            /\ response' = <<outcome>>
            /\ insight' = <<CompletionText(outcome)>>
            /\ pc' = "csv"
            /\ alert' = alert
  /\ UNCHANGED <<uploaded_file, lines, gi, current_block, blocks, starts, pj, txns, df,
                 table, metrics, chart, csv, description, category>>

\* line 153
DownloadCsv ==
  /\ pc = "csv"
  /\ csv' = <<ToCsv(df)>>
  /\ pc' = "done"
  /\ UNCHANGED <<uploaded_file, lines, gi, current_block, blocks, starts, pj, txns, df, alert,
                 table, metrics, chart, insight, calls, response, description, category>>

Next ==
  \/ Upload
  \/ extract_text_lines
  \/ GroupLine
  \/ GroupReturn
  \/ ParseStep
  \/ CheckParsed
  \/ Categorize
  \/ BuildFrame
  \/ ShowTable
  \/ ShowMetrics
  \/ ShowChart
  \/ get_llm_insight
  \/ DownloadCsv

Spec == Init /\ [][Next]_vars

\* ------------------------------------- categorize_transaction on its own
FragExample == <<"P", "a", "i", "d", " ", "v", "i", "a", " ", "G", "o", "o", "g", "l", "e", "P", "a", "y", " ", "f", "o", "r", " ", "Z", "o", "m", "a", "t", "o", " ", "o", "r", "d", "e", "r">>

Frags ==
  {FragExample,
   <<"z", "o", "m", "a", "t", "o">>,
   <<"S", "W", "I", "G", "G", "Y">>,
   <<"G", "o", "o", "g", "l", "e", "P", "a", "y">>,
   <<"p", "a", "y", "t", "m">>,
   <<"U", "P">>,
   <<"i">>,
   <<"I", "m", "p", "s">>,
   <<"t", "r", "a", "n", "s", "f", "e", "r">>,
   <<"I", "N", "T", "E", "R", "E", "S", "T">>,
   <<"S", "a", "l", "a", "r", "y">>,
   <<"r", "e", "c", "h", "a", "r", "g", "e">>,
   <<"B", "i", "l", "l">>,
   <<" ">>,
   <<"x", "y">>}

RECURSIVE Concats(_)
Concats(n) ==
  IF n = 0 THEN {<<>>}
  ELSE LET shorter == Concats(n - 1)
       IN shorter \cup {d \o f : d \in shorter, f \in Frags}

Descriptions == Concats(MaxFrags)

InitCat ==
  /\ pc = "call"
  /\ uploaded_file = [kind |-> "none", text |-> <<>>]
  /\ Idle
  /\ description \in Descriptions
  /\ category = "none"

\* lines 55-68: one call
CategorizeCall ==
  /\ pc = "call"
  /\ category' = categorize_transaction(description)
  /\ pc' = "returned"
  /\ UNCHANGED <<uploaded_file, lines, gi, current_block, blocks, starts, pj, txns, df, alert,
                 table, metrics, chart, insight, csv, calls, response, description>>

NextCat == CategorizeCall

SpecCat == InitCat /\ [][NextCat]_vars

\* =================================================================== claims
\* ---- what the claims say of a block, stated apart from ParseBlock
HasDate(b) == \E p \in 1..Len(b) : DateAt(b, p)

HasAmount(b) == \E p \in 1..Len(b) : AmountEnd(b, p) # 0

\* the nine characters of the leftmost date-pattern match
FirstDateToken(b) ==
  LET at == {x \in 1..Len(b) : DateAt(b, x)}
      p == CHOOSE x \in at : \A q \in at : x <= q
  IN SubSeq(b, p, p + 8)

ValidFirstDate(b) == HasDate(b) /\ Strptime(FirstDateToken(b)).ok

YieldsTx(b) == HasDate(b) /\ HasAmount(b) /\ ValidFirstDate(b)

\* the blocks the parse loop has been through, and those of them that yield
Processed == SubSeq(blocks, 1, pj - 1)
Kept == SelectSeq(Processed, YieldsTx)

\* every date-pattern match removed, leftmost first, each search resuming after
\* the match before it
RECURSIVE RemoveAllDates(_)
RemoveAllDates(b) ==
  LET p == SearchDate(b)
  IN IF p = 0 THEN b
     ELSE SubSeq(b, 1, p - 1) \o RemoveAllDates(SubSeq(b, p + 9, Len(b)))

\* kw (in upper case) occurs in s whatever the case of s's letters
ContainsAnyCase(s, kw) ==
  \E p \in 1..(Len(s) - Len(kw) + 1) : \A i \in 1..Len(kw) : UpperChar(s[p + i - 1]) = kw[i]

RECURSIVE SumOfType(_, _, _)
SumOfType(rows, t, n) ==
  IF n = 0 THEN 0
  ELSE SumOfType(rows, t, n - 1) + (IF rows[n].type = t THEN rows[n].amount ELSE 0)

Unreadable == uploaded_file.kind = "unreadable"

Extracted == uploaded_file.kind = "pdf" /\ pc \notin {"upload", "extract"}

Grouped == Extracted /\ pc # "group"

ParsedNothing == Grouped /\ pj > Len(blocks) /\ txns = <<>>

NothingProduced ==
  /\ df = <<>> /\ table = <<>> /\ metrics = <<>> /\ chart = <<>>
  /\ insight = <<>> /\ calls = 0 /\ csv = <<>>

\* C1: when the upload is not a readable PDF, or text is extracted but no
\* transaction is parsed, the run ends in an error (the uncaught exception of
\* extract_text_lines, or the "no valid transactions" error and st.stop()), and
\* no later stage runs: no table, metrics, chart, insight request or CSV.
C1_FatalErrorStopsPipeline ==
  (Unreadable \/ ParsedNothing) =>
    /\ NothingProduced
    /\ pc \in {"upload", "extract", "parse", "stopped", "exception"}
    /\ (Unreadable /\ pc \notin {"upload", "extract"}) =>
         (pc = "exception" /\ alert = "exception_extract_text_lines")
    /\ (ParsedNothing /\ pc # "parse") =>
         (pc = "stopped" /\ alert = "error_no_transactions")

C1_Witness ==
  /\ ParsedNothing
  /\ pc = "stopped"
  /\ alert = "error_no_transactions"
  /\ Len(blocks) >= 2

\* C2: in every run that parsed at least one transaction and has ended, the
\* table, the metrics, the chart and the CSV export are all produced, each
\* from the parsed transactions alone, whatever became of the insight request.
C2_InsightFailureIsolated ==
  (Grouped /\ txns # <<>> /\ pc \in {"done", "stopped", "exception"}) =>
    /\ table = <<df>>
    /\ metrics = <<Metrics(df)>>
    /\ chart = <<GroupByCategory(RowsOfType(df, "Debit"))>>
    /\ csv = <<ToCsv(df)>>

\* C3: get_llm_insight never propagates a failure; it makes exactly one
\* completion call, returns the service's text verbatim on success and
\* "LLM failed: " followed by the error detail on any failure.
C3_InsightNeverPropagates ==
  /\ alert # "exception_get_llm_insight"
  /\ calls <= 1
  /\ pc \in {"csv", "done"} =>
       /\ calls = 1
       /\ Len(response) = 1
       /\ insight = << IF response[1].kind = "ok"
                       THEN response[1].text
                       ELSE "LLM failed: " \o response[1].text >>

\* C4: categorize_transaction returns exactly one of the six categories, that
\* of the first rule, in the order Food, UPI Payment, Bank Transfer, Income,
\* Utilities, whose keyword the lower-cased description contains, else Others.
C4_FirstMatchingRuleWins ==
  pc = "returned" =>
    LET d == Lower(description)
        food == Contains(d, KwZomato) \/ Contains(d, KwSwiggy)
        upi == Contains(d, KwGooglepay) \/ Contains(d, KwPaytm) \/ Contains(d, KwUpi)
        bank == Contains(d, KwImps) \/ Contains(d, KwTransfer)
        income == Contains(d, KwInterest) \/ Contains(d, KwSalary)
        util == Contains(d, KwRecharge) \/ Contains(d, KwBill)
    IN /\ category \in {"Food", "UPI Payment", "Bank Transfer", "Income", "Utilities", "Others"}
       /\ food => category = "Food"
       /\ (~food /\ upi) => category = "UPI Payment"
       /\ (~food /\ ~upi /\ bank) => category = "Bank Transfer"
       /\ (~food /\ ~upi /\ ~bank /\ income) => category = "Income"
       /\ (~food /\ ~upi /\ ~bank /\ ~income /\ util) => category = "Utilities"
       /\ (~food /\ ~upi /\ ~bank /\ ~income /\ ~util) => category = "Others"

C4_Witness ==
  /\ pc = "returned"
  /\ description = FragExample
  /\ category = "Food"

\* C5: the parse loop emits at most one transaction per block, in block
\* order; a block without a date match, without an amount match, or whose
\* date token is no calendar date yields nothing and leaves the loop running
\* and the other blocks' transactions as they are, so the number of dropped
\* blocks is the number of blocks gone through less the transactions emitted.
C5_OneTransactionPerKeptBlock ==
  Grouped =>
    LET kept == Kept
    IN /\ Len(txns) = Len(kept)
       /\ Len(Processed) - Len(txns) =
            Cardinality({k \in 1..Len(Processed) :
                           ~HasDate(blocks[k]) \/ ~HasAmount(blocks[k]) \/ ~ValidFirstDate(blocks[k])})
       /\ \A k \in 1..Len(txns) :
            /\ txns[k].date = Strftime(Strptime(FirstDateToken(kept[k])))
            /\ txns[k].amount = AmountValue(SearchAmount(kept[k]))
       /\ pc = "parse" => alert = "none"

C5_Witness ==
  /\ Grouped
  /\ pj > Len(blocks)
  /\ Len(blocks) = 3
  /\ YieldsTx(blocks[1])
  /\ HasDate(blocks[2]) /\ HasAmount(blocks[2]) /\ ~ValidFirstDate(blocks[2])
  /\ YieldsTx(blocks[3])
  /\ Len(txns) = 2

\* C6 as stated: the description is the block with only the first
\* date-pattern occurrence removed (and the surrounding whitespace trimmed).
C6_OnlyFirstDateRemoved ==
  Grouped =>
    LET kept == Kept
    IN \A k \in 1..Len(txns) : txns[k].description = Strip(RemoveFirstDate(kept[k]))

\* C6 as amended: the description is the block with every date-pattern
\* occurrence removed (non-overlapping matches, leftmost first), then trimmed
\* of surrounding whitespace.
C6_EveryDateRemoved ==
  Grouped =>
    LET kept == Kept
    IN \A k \in 1..Len(txns) : txns[k].description = Strip(RemoveAllDates(kept[k]))

C6_Witness ==
  /\ Grouped
  /\ LET kept == Kept
     IN \E k \in 1..Len(txns) :
          /\ HasDate(RemoveFirstDate(kept[k]))
          /\ ~HasDate(txns[k].description)

\* C7: once the lines are grouped, a block begins at line 1 and at each line
\* that matches the date pattern at its start, and nowhere else: every block
\* but the first begins with a date-matching line, no other line of a block
\* matches, and the lines before the first date-matching line are in the first
\* block; each block is its lines, trimmed, joined with single spaces.
C7_BlocksStartAtDateLines ==
  Grouped =>
    LET n == Len(lines)
        last(k) == IF k < Len(starts) THEN starts[k + 1] - 1 ELSE n
    IN /\ Len(blocks) = Len(starts)
       /\ Range(starts) = {1} \cup {i \in 1..n : MatchDate(lines[i])}
       /\ \A k \in 1..(Len(starts) - 1) : starts[k] < starts[k + 1]
       /\ \A k \in 2..Len(starts) : MatchDate(lines[starts[k]])
       /\ \A k \in DOMAIN starts : \A i \in (starts[k] + 1)..last(k) : ~MatchDate(lines[i])
       /\ \A k \in DOMAIN blocks :
            blocks[k] = Join([i \in 1..(last(k) - starts[k] + 1) |-> Strip(lines[starts[k] + i - 1])])

C7_Witness ==
  /\ Grouped
  /\ Len(lines) = 3
  /\ Len(blocks) = 2
  /\ ~MatchDate(lines[1])
  /\ MatchDate(lines[2])
  /\ SearchDate(lines[3]) # 0 /\ ~MatchDate(lines[3])

\* C8: the metrics shown are the sum of the Credit amounts, the sum of the
\* Debit amounts, their difference, and 100 * savings / total_income when
\* total_income > 0, else 0, with no division by zero.
C8_SummaryMetrics ==
  metrics # <<>> =>
    LET m == metrics[1]
        inc == SumOfType(df, "Credit", Len(df))
        exp == SumOfType(df, "Debit", Len(df))
    IN /\ m.total_income = inc
       /\ m.total_expense = exp
       /\ m.savings = inc - exp
       /\ m.savings_percent.den # 0
       /\ inc > 0 => (m.savings_percent.num = 100 * (inc - exp) /\ m.savings_percent.den = inc)
       /\ inc = 0 => m.savings_percent.num = 0

\* Credit 1000, Debit 400, Debit 100 gives 1000, 500, 500 and 50 per cent
C8_Witness ==
  /\ metrics # <<>>
  /\ Len(df) = 3
  /\ df[1].type = "Credit" /\ df[1].amount = 100000
  /\ df[2].type = "Debit" /\ df[2].amount = 40000
  /\ df[3].type = "Debit" /\ df[3].amount = 10000
  /\ metrics[1].total_income = 100000
  /\ metrics[1].total_expense = 50000
  /\ metrics[1].savings = 50000
  /\ metrics[1].savings_percent.num = 50 * metrics[1].savings_percent.den

\* C9: a transaction is Credit exactly when its block contains RETURN or
\* INTEREST in any letter case, and Debit otherwise.
C9_CreditIffReturnOrInterest ==
  Grouped =>
    LET kept == Kept
    IN \A k \in 1..Len(txns) :
         /\ txns[k].type \in {"Credit", "Debit"}
         /\ txns[k].type = "Credit" <=>
              (ContainsAnyCase(kept[k], KwRETURN) \/ ContainsAnyCase(kept[k], KwINTEREST))

C9_Witness ==
  /\ Grouped
  /\ Len(txns) >= 2
  /\ LET kept == Kept
     IN \E k \in 1..Len(txns) :
          /\ txns[k].type = "Credit"
          /\ ~Contains(kept[k], KwRETURN) /\ ~Contains(kept[k], KwINTEREST)
  /\ \E k \in 1..Len(txns) : txns[k].type = "Debit"

\* C10: grouping neither loses, duplicates nor reorders lines: at every point
\* of the loop the blocks emitted and the accumulator, joined with single
\* spaces, are the trimmed lines gone through joined with single spaces, and
\* every block comes from an accumulator holding at least one line.
C10_GroupingPreservesLines ==
  Extracted =>
    LET seen == [i \in 1..(gi - 1) |-> Strip(lines[i])]
        pending == IF current_block = <<>> THEN <<>> ELSE <<Join(current_block)>>
    IN /\ Join(blocks \o pending) = Join(seen)
       /\ Len(blocks) + Len(pending) <= gi - 1
       /\ Grouped => (gi = Len(lines) + 1 /\ current_block = <<>>)

C10_Witness ==
  /\ Grouped
  /\ Len(lines) = 3
  /\ Len(blocks) = 2
  /\ \E i \in 1..3 : Strip(lines[i]) # lines[i]
  /\ \E i \in 1..3 : lines[i] = <<>>

====
